---------------------------- MODULE Spec2Model ----------------------------
(***************************************************************************)
(* The PACS server of DICOM_PACS/PACS_SERVER/PACS_new.py: the C-STORE,     *)
(* C-FIND and C-MOVE handlers over the in-memory list stored_datasets.     *)
(*                                                                         *)
(* A handler that is a Python generator (handle_find, handle_move) is      *)
(* modelled by its position: every action runs the generator from one      *)
(* point to the next, and appends what it yields to the handler's output.  *)
(* Strings are sequences of one-character strings, so that str.strip() is  *)
(* computed and not assumed.                                               *)
(***************************************************************************)
EXTENDS Integers, Sequences, FiniteSets, TLC

(***************************************************************************)
(* Bounds of the model.                                                    *)
(***************************************************************************)
\* the most instances the repository holds
MaxStored == 2
\* the longest timeout of wait_for_files, in ticks of one poll interval
MaxTimeout == 5
\* the largest value of wait_for_files' parameter consecutive
MaxConsecutive == 2
\* the most files that arrive in the landing folder
MaxFiles == 4
\* the longest time.sleep(poll_interval) takes, in poll intervals
MaxSleep == 3
\* the longest the thread of wait_for_files is held up between two of its
\* statements, in poll intervals
MaxLag == 1

(***************************************************************************)
(* Status codes yielded or returned by the handlers.                       *)
(***************************************************************************)
\* 0x0000, returned by handle_store
StatusSuccess == 0
\* 0xFF00, a C-FIND match and a C-MOVE item that was sent
StatusPending == 65280
\* 0xFE00
StatusCancelled == 65024
\* 0xA801, move destination unknown and move destination unavailable
StatusDestination == 43009
\* 0xB000, a C-MOVE item the remote did not accept
StatusFailed == 45056

(***************************************************************************)
(* Values.                                                                 *)
(***************************************************************************)
\* the characters str.strip() removes (only the blank is used in the model)
Whitespace == {" "}

\* SOPInstanceUID values of the incoming datasets
UIDs == {"1.1", "1.2"}

\* PatientID values of stored datasets and of identifiers:
\* "a", "a ", " a", "b" and ""
PidValues == {<<"a">>, <<"a", " ">>, <<" ", "a">>, <<"b">>, <<>>}

\* QueryRetrieveLevel values of identifiers
Levels == {"PATIENT", "STUDY"}

\* a dataset received by C-STORE: hasPatientID is hasattr(inst, 'PatientID')
Datasets ==
    {d \in [SOPInstanceUID : UIDs, hasPatientID : BOOLEAN, PatientID : PidValues] :
        ~d.hasPatientID => d.PatientID = <<>>}

\* a C-FIND / C-MOVE identifier: hasPatientID is ('PatientID' in ds)
Identifiers ==
    {d \in [QueryRetrieveLevel : Levels, hasPatientID : BOOLEAN, PatientID : PidValues] :
        ~d.hasPatientID => d.PatientID = <<>>}

\* move destinations a request may name; the last is not in the registry
MoveDestinations == {"TESTSCU", "TESTSCU2", "OTHERAE"}

\* the registry of handle_move
KNOWN_AE_DESTINATIONS ==
    [ae \in {"TESTSCU", "TESTSCU2"} |->
        IF ae = "TESTSCU" THEN [addr |-> "127.0.0.1", port |-> 11113]
                          ELSE [addr |-> "127.0.0.1", port |-> 11119]]

\* what assoc.send_c_store returns: an empty dataset (falsy), or one with a Status
SendReplies ==
    {[present |-> FALSE, Status |-> 0],
     [present |-> TRUE, Status |-> 0],
     [present |-> TRUE, Status |-> 42752]}

\* every content of the repository within the bound
RECURSIVE SeqsUpTo(_, _)
SeqsUpTo(S, n) ==
    IF n = 0 THEN {<<>>}
    ELSE LET shorter == SeqsUpTo(S, n - 1)
         IN shorter \cup {Append(s, x) : s \in {t \in shorter : Len(t) = n - 1}, x \in S}

(***************************************************************************)
(* str.strip()                                                             *)
(***************************************************************************)
RECURSIVE lstrip(_)
lstrip(s) ==
    IF s = <<>> THEN s
    ELSE IF Head(s) \in Whitespace THEN lstrip(Tail(s)) ELSE s

RECURSIVE rstrip(_)
rstrip(s) ==
    IF s = <<>> THEN s
    ELSE IF s[Len(s)] \in Whitespace THEN rstrip(SubSeq(s, 1, Len(s) - 1)) ELSE s

strip(s) == rstrip(lstrip(s))

VARIABLES
    stored_datasets,  \* the module's list of stored datasets
    files,            \* SOPInstanceUIDs whose <uid>.dcm file has been written
    st_pc,            \* handle_store: "idle", "save", "append"
    st_ds,            \* handle_store: event.dataset
    st_before,        \* handle_store: stored_datasets when the call began
    st_saved,         \* handle_store: "pending", or how save_as ended
    st_result,        \* handle_store: how the last call ended
    fd_pc,            \* handle_find: "idle", "match", "yield", "done"
    fd_ds,            \* handle_find: event.identifier
    matches,          \* handle_find: the list matches
    fd_i,             \* handle_find: index of the next match (1-based)
    fd_out,           \* handle_find: what it has yielded so far
    fd_cancelled,     \* handle_find: event.is_cancelled
    fd_cancel_at,     \* handle_find: fd_i when the cancel came
    mv_pc,            \* handle_move: "idle", "resolve", "count", "check",
                      \*   "associate", "send", "release", "done", "raised"
    mv_ds,            \* handle_move: event.identifier
    dest_ae,          \* handle_move: event.move_destination
    to_send,          \* handle_move: the list to_send
    mv_i,             \* handle_move: index in to_send of the current inst
    mv_status,        \* handle_move: status returned by send_c_store
    assoc_open,       \* handle_move: the association assoc is established
    mv_out,           \* handle_move: what it has yielded so far
    mv_assoc,         \* handle_move: the associate() calls made, in order
    mv_sent,          \* handle_move: the send_c_store calls made, in order
    mv_cancelled,     \* handle_move: event.is_cancelled
    mv_cancel_at,     \* handle_move: candidates admitted when the cancel came
    mv_cancel_pc,     \* handle_move: mv_pc when the cancel came
    mv_released,      \* handle_move: candidates whose association was released
    folder_exists,    \* the landing folder static/retrieved_<id> exists
    folder_files,     \* the .dcm files in the landing folder
    wf_pc,            \* wait_for_files: "idle", "loop", "poll", "sleep", "returned"
    wf_timeout,       \* wait_for_files: timeout, in ticks of one poll interval
    consecutive,      \* wait_for_files: consecutive
    stable_count,     \* wait_for_files: stable_count
    previous_count,   \* wait_for_files: previous_count
    current_files,    \* wait_for_files: current_files
    elapsed,          \* wait_for_files: time.time() - start_time, in ticks
    wf_polls          \* wait_for_files: what each turn of the loop found

store_vars == <<st_pc, st_ds, st_before, st_saved, st_result>>
find_vars == <<fd_pc, fd_ds, matches, fd_i, fd_out, fd_cancelled, fd_cancel_at>>
move_vars == <<mv_pc, mv_ds, dest_ae, to_send, mv_i, mv_status, assoc_open,
               mv_out, mv_assoc, mv_sent, mv_cancelled, mv_cancel_at,
               mv_cancel_pc, mv_released>>
wait_vars == <<folder_exists, folder_files, wf_pc, wf_timeout, consecutive,
               stable_count, previous_count, current_files, elapsed, wf_polls>>
vars == <<stored_datasets, files, store_vars, find_vars, move_vars, wait_vars>>

NoDataset == [SOPInstanceUID |-> "", hasPatientID |-> FALSE, PatientID |-> <<>>]
NoIdentifier == [QueryRetrieveLevel |-> "", hasPatientID |-> FALSE, PatientID |-> <<>>]
NoReply == [present |-> FALSE, Status |-> 0]

StoreIdle ==
    /\ st_pc = "idle"
    /\ st_ds = NoDataset
    /\ st_before = <<>>
    /\ st_saved = "pending"
    /\ st_result = [kind |-> "none", status |-> StatusSuccess]

FindIdle ==
    /\ fd_pc = "idle"
    /\ fd_ds = NoIdentifier
    /\ matches = <<>>
    /\ fd_i = 1
    /\ fd_out = <<>>
    /\ fd_cancelled = FALSE
    /\ fd_cancel_at = 0

MoveIdle ==
    /\ mv_pc = "idle"
    /\ mv_ds = NoIdentifier
    /\ dest_ae = ""
    /\ to_send = <<>>
    /\ mv_i = 1
    /\ mv_status = NoReply
    /\ assoc_open = FALSE
    /\ mv_out = <<>>
    /\ mv_assoc = <<>>
    /\ mv_sent = <<>>
    /\ mv_cancelled = FALSE
    /\ mv_cancel_at = 0
    /\ mv_cancel_pc = ""
    /\ mv_released = {}

WaitIdle ==
    /\ folder_exists = FALSE
    /\ folder_files = {}
    /\ wf_pc = "idle"
    /\ wf_timeout = 0
    /\ consecutive = 0
    /\ stable_count = 0
    /\ previous_count = -1
    /\ current_files = {}
    /\ elapsed = 0
    /\ wf_polls = <<>>

\* the module as loaded: stored_datasets = []
Init ==
    /\ stored_datasets = <<>>
    /\ files = {}
    /\ StoreIdle
    /\ FindIdle
    /\ MoveIdle
    /\ WaitIdle

(***************************************************************************)
(* handle_store                                                            *)
(***************************************************************************)
\* a C-STORE request arrives: ds = event.dataset, one of the datasets D
StoreBeginOf(D) ==
    /\ st_pc = "idle"
    /\ Len(stored_datasets) < MaxStored
    /\ \E ds \in D : st_ds' = ds
    /\ st_before' = stored_datasets
    /\ st_saved' = "pending"
    /\ st_result' = [kind |-> "none", status |-> StatusSuccess]
    /\ st_pc' = "save"
    /\ UNCHANGED <<wait_vars, stored_datasets, files, find_vars, move_vars>>

StoreBegin == StoreBeginOf(Datasets)

\* ds.save_as(filename): writes the file, or raises and ends the handler; the
\* file may have been created before the exception (open() done, write failed)
StoreSaveSwallow ==
    /\ st_pc = "save"
    /\ \E written \in BOOLEAN :
        /\ files' = IF written THEN files \cup {st_ds.SOPInstanceUID} ELSE files
        /\ st_saved' = IF written THEN "written" ELSE "failed"
    /\ st_pc' = "append"
    /\ UNCHANGED <<wait_vars, stored_datasets, st_ds, st_before, st_result, find_vars, move_vars>>

StoreSave ==
    /\ st_pc = "save"
    /\ \/ /\ files' = files \cup {st_ds.SOPInstanceUID}
          /\ st_saved' = "written"
          /\ st_pc' = "append"
          /\ UNCHANGED st_result
       \/ /\ \E created \in BOOLEAN :
                files' = IF created THEN files \cup {st_ds.SOPInstanceUID} ELSE files
          /\ st_saved' = "failed"
          /\ st_result' = [kind |-> "raise", status |-> -1]
          /\ st_pc' = "idle"
    /\ UNCHANGED <<wait_vars, stored_datasets, st_ds, st_before, find_vars, move_vars>>

\* stored_datasets.append(ds); return 0x0000
StoreAppendInFront ==
    /\ st_pc = "append"
    /\ stored_datasets' = <<st_ds>> \o stored_datasets
    /\ st_result' = [kind |-> "return", status |-> StatusSuccess]
    /\ st_pc' = "idle"
    /\ UNCHANGED <<wait_vars, files, st_ds, st_before, st_saved, find_vars, move_vars>>

StoreAppend ==
    /\ st_pc = "append"
    /\ stored_datasets' = Append(stored_datasets, st_ds)
    /\ st_result' = [kind |-> "return", status |-> StatusSuccess]
    /\ st_pc' = "idle"
    /\ UNCHANGED <<wait_vars, files, st_ds, st_before, st_saved, find_vars, move_vars>>

handle_store == StoreBegin \/ StoreSave \/ StoreAppend


(***************************************************************************)
(* handle_find                                                             *)
(***************************************************************************)
\* the Dataset res built for a matching inst
MatchResult(inst) ==
    [QueryRetrieveLevel |-> "PATIENT", PatientID |-> inst.PatientID]

\* the loop over stored_datasets: rest is what is left to visit, seen is
\* patient_ids_seen, acc is matches
RECURSIVE FindScanTrimmedSeen(_, _, _, _)
FindScanTrimmedSeen(rest, ds, seen, acc) ==
    IF rest = <<>> THEN acc
    ELSE LET inst == Head(rest)
         IN IF /\ inst.hasPatientID
               /\ strip(inst.PatientID) = strip(ds.PatientID)
               /\ strip(inst.PatientID) \notin seen
            THEN FindScanTrimmedSeen(Tail(rest), ds, seen \cup {strip(inst.PatientID)},
                                     Append(acc, MatchResult(inst)))
            ELSE FindScanTrimmedSeen(Tail(rest), ds, seen, acc)

RECURSIVE FindScan(_, _, _, _)
FindScan(rest, ds, seen, acc) ==
    IF rest = <<>> THEN acc
    ELSE LET inst == Head(rest)
         IN IF /\ inst.hasPatientID
               /\ strip(inst.PatientID) = strip(ds.PatientID)
               /\ inst.PatientID \notin seen
            THEN FindScan(Tail(rest), ds, seen \cup {inst.PatientID},
                          Append(acc, MatchResult(inst)))
            ELSE FindScan(Tail(rest), ds, seen, acc)

\* matches as handle_find builds it: ds.PatientID must be present and non-empty
FindMatchesAnyLevel(ds, stored) ==
    IF ds.hasPatientID /\ ds.PatientID # <<>>
    THEN FindScan(stored, ds, {}, <<>>)
    ELSE <<>>

FindMatches(ds, stored) ==
    IF /\ ds.QueryRetrieveLevel = "PATIENT"
       /\ ds.hasPatientID
       /\ ds.PatientID # <<>>
    THEN FindScan(stored, ds, {}, <<>>)
    ELSE <<>>

\* a C-FIND request arrives: ds = event.identifier, one of the identifiers I
FindBeginOf(I) ==
    /\ fd_pc = "idle"
    /\ \E ds \in I : fd_ds' = ds
    /\ fd_pc' = "match"
    /\ UNCHANGED <<wait_vars, stored_datasets, files, store_vars, matches, fd_i, fd_out,
                   fd_cancelled, fd_cancel_at, move_vars>>

FindBegin == FindBeginOf(Identifiers)

\* the body up to the loop over matches
FindMatch ==
    /\ fd_pc = "match"
    /\ matches' = FindMatches(fd_ds, stored_datasets)
    /\ fd_i' = 1
    /\ fd_pc' = "yield"
    /\ UNCHANGED <<wait_vars, stored_datasets, files, store_vars, fd_ds, fd_out, fd_cancelled,
                   fd_cancel_at, move_vars>>

\* one turn of "for match in matches", to its yield or to the generator's end
FindNextIgnoreCancel ==
    /\ fd_pc = "yield"
    /\ IF fd_i > Len(matches)
       THEN /\ fd_pc' = "done"
            /\ UNCHANGED <<fd_i, fd_out>>
       ELSE IF fd_cancelled
       THEN /\ fd_out' = Append(fd_out, [status |-> StatusCancelled, hasIdentifier |-> FALSE,
                                         identifier |-> MatchResult(NoDataset)])
            /\ fd_i' = fd_i + 1
            /\ UNCHANGED fd_pc
       ELSE /\ fd_out' = Append(fd_out, [status |-> StatusPending, hasIdentifier |-> TRUE,
                                         identifier |-> matches[fd_i]])
            /\ fd_i' = fd_i + 1
            /\ UNCHANGED fd_pc
    /\ UNCHANGED <<wait_vars, stored_datasets, files, store_vars, fd_ds, matches, fd_cancelled,
                   fd_cancel_at, move_vars>>

FindNext ==
    /\ fd_pc = "yield"
    /\ IF fd_i > Len(matches)
       THEN /\ fd_pc' = "done"
            /\ UNCHANGED <<fd_i, fd_out>>
       ELSE IF fd_cancelled
       THEN /\ fd_out' = Append(fd_out, [status |-> StatusCancelled, hasIdentifier |-> FALSE,
                                         identifier |-> MatchResult(NoDataset)])
            /\ fd_pc' = "done"
            /\ UNCHANGED fd_i
       ELSE /\ fd_out' = Append(fd_out, [status |-> StatusPending, hasIdentifier |-> TRUE,
                                         identifier |-> matches[fd_i]])
            /\ fd_i' = fd_i + 1
            /\ UNCHANGED fd_pc
    /\ UNCHANGED <<wait_vars, stored_datasets, files, store_vars, fd_ds, matches, fd_cancelled,
                   fd_cancel_at, move_vars>>

\* the peer's C-CANCEL: event.is_cancelled becomes true while the request runs
FindCancel ==
    /\ fd_pc \in {"match", "yield"}
    /\ ~fd_cancelled
    /\ fd_cancelled' = TRUE
    /\ fd_cancel_at' = fd_i
    /\ UNCHANGED <<wait_vars, stored_datasets, files, store_vars, fd_pc, fd_ds, matches, fd_i,
                   fd_out, move_vars>>

handle_find == FindBegin \/ FindMatch \/ FindNext

(***************************************************************************)
(* handle_move                                                             *)
(***************************************************************************)
\* what handle_move yields: the destination triple, the count, or a status pair
DestinationEvent(ae) ==
    [tag |-> "destination", addr |-> KNOWN_AE_DESTINATIONS[ae].addr,
     port |-> KNOWN_AE_DESTINATIONS[ae].port, ae_title |-> ae]
CountEvent(n) == [tag |-> "count", n |-> n]
StatusEvent(code) == [tag |-> "status", status |-> code]

\* the loop that fills to_send: the matching datasets, in list order
RECURSIVE MoveScanReversed(_, _, _)
MoveScanReversed(rest, ds, acc) ==
    IF rest = <<>> THEN acc
    ELSE LET inst == Head(rest)
         IN IF inst.hasPatientID /\ strip(inst.PatientID) = strip(ds.PatientID)
            THEN MoveScanReversed(Tail(rest), ds, <<inst>> \o acc)
            ELSE MoveScanReversed(Tail(rest), ds, acc)

RECURSIVE MoveScan(_, _, _)
MoveScan(rest, ds, acc) ==
    IF rest = <<>> THEN acc
    ELSE LET inst == Head(rest)
         IN IF inst.hasPatientID /\ strip(inst.PatientID) = strip(ds.PatientID)
            THEN MoveScan(Tail(rest), ds, Append(acc, inst))
            ELSE MoveScan(Tail(rest), ds, acc)

\* to_send as handle_move builds it: ds.PatientID need only be present
MoveCandidates(ds, stored) ==
    IF ds.QueryRetrieveLevel = "PATIENT" /\ ds.hasPatientID
    THEN MoveScan(stored, ds, <<>>)
    ELSE <<>>

\* a C-MOVE request arrives: ds = event.identifier, one of the identifiers I,
\* and dest_ae = event.move_destination, one of the titles A
MoveBeginOf(I, A) ==
    /\ mv_pc = "idle"
    /\ \E ds \in I : mv_ds' = ds
    /\ \E ae \in A : dest_ae' = ae
    /\ mv_pc' = "resolve"
    /\ UNCHANGED <<wait_vars, stored_datasets, files, store_vars, find_vars, to_send, mv_i,
                   mv_status, assoc_open, mv_out, mv_assoc, mv_sent, mv_cancelled,
                   mv_cancel_at, mv_cancel_pc, mv_released>>

MoveBegin == MoveBeginOf(Identifiers, MoveDestinations)

\* the registry lookup: yield 0xA801 and return, or yield the destination
MoveResolveNoReturn ==
    /\ mv_pc = "resolve"
    /\ IF dest_ae \notin DOMAIN KNOWN_AE_DESTINATIONS
       THEN /\ mv_out' = Append(mv_out, StatusEvent(StatusDestination))
            /\ mv_pc' = "count"
       ELSE /\ mv_out' = Append(mv_out, DestinationEvent(dest_ae))
            /\ mv_pc' = "count"
    /\ UNCHANGED <<wait_vars, stored_datasets, files, store_vars, find_vars, mv_ds, dest_ae,
                   to_send, mv_i, mv_status, assoc_open, mv_assoc, mv_sent,
                   mv_cancelled, mv_cancel_at,
                   mv_cancel_pc, mv_released>>

MoveResolve ==
    /\ mv_pc = "resolve"
    /\ IF dest_ae \notin DOMAIN KNOWN_AE_DESTINATIONS
       THEN /\ mv_out' = Append(mv_out, StatusEvent(StatusDestination))
            /\ mv_pc' = "done"
       ELSE /\ mv_out' = Append(mv_out, DestinationEvent(dest_ae))
            /\ mv_pc' = "count"
    /\ UNCHANGED <<wait_vars, stored_datasets, files, store_vars, find_vars, mv_ds, dest_ae,
                   to_send, mv_i, mv_status, assoc_open, mv_assoc, mv_sent,
                   mv_cancelled, mv_cancel_at,
                   mv_cancel_pc, mv_released>>

\* fill to_send from stored_datasets and yield len(to_send)
MoveCountCancellable ==
    /\ mv_pc = "count"
    /\ IF mv_cancelled
       THEN /\ mv_out' = Append(mv_out, StatusEvent(StatusCancelled))
            /\ mv_pc' = "done"
            /\ UNCHANGED <<to_send, mv_i>>
       ELSE /\ to_send' = MoveCandidates(mv_ds, stored_datasets)
            /\ mv_out' = Append(mv_out, CountEvent(Len(to_send')))
            /\ mv_i' = 1
            /\ mv_pc' = "check"
    /\ UNCHANGED <<wait_vars, stored_datasets, files, store_vars, find_vars, mv_ds,
                   dest_ae, mv_status, assoc_open, mv_assoc, mv_sent, mv_cancelled,
                   mv_cancel_at, mv_cancel_pc, mv_released>>

MoveCount ==
    /\ mv_pc = "count"
    /\ to_send' = MoveCandidates(mv_ds, stored_datasets)
    /\ mv_out' = Append(mv_out, CountEvent(Len(to_send')))
    /\ mv_i' = 1
    /\ mv_pc' = "check"
    /\ UNCHANGED <<wait_vars, stored_datasets, files, store_vars, find_vars, mv_ds, dest_ae,
                   mv_status, assoc_open, mv_assoc, mv_sent, mv_cancelled,
                   mv_cancel_at, mv_cancel_pc, mv_released>>

\* the head of "for inst in to_send" and the cancellation check
MoveCheckNoCancel ==
    /\ mv_pc = "check"
    /\ IF mv_i > Len(to_send)
       THEN /\ mv_pc' = "done"
            /\ UNCHANGED mv_out
       ELSE /\ mv_pc' = "associate"
            /\ UNCHANGED mv_out
    /\ UNCHANGED <<wait_vars, stored_datasets, files, store_vars, find_vars, mv_ds, dest_ae,
                   to_send, mv_i, mv_status, assoc_open, mv_assoc, mv_sent,
                   mv_cancelled, mv_cancel_at,
                   mv_cancel_pc, mv_released>>

MoveCheckCancelFirst ==
    /\ mv_pc = "check"
    /\ IF mv_cancelled
       THEN /\ mv_out' = Append(mv_out, StatusEvent(StatusCancelled))
            /\ mv_pc' = "done"
       ELSE IF mv_i > Len(to_send)
       THEN /\ mv_pc' = "done"
            /\ UNCHANGED mv_out
       ELSE /\ mv_pc' = "associate"
            /\ UNCHANGED mv_out
    /\ UNCHANGED <<wait_vars, stored_datasets, files, store_vars, find_vars, mv_ds, dest_ae,
                   to_send, mv_i, mv_status, assoc_open, mv_assoc, mv_sent,
                   mv_cancelled, mv_cancel_at, mv_cancel_pc, mv_released>>

MoveCheckRescan ==
    /\ mv_pc = "check"
    /\ to_send' = MoveCandidates(mv_ds, stored_datasets)
    /\ IF mv_i > Len(to_send')
       THEN /\ mv_pc' = "done"
            /\ UNCHANGED mv_out
       ELSE IF mv_cancelled
       THEN /\ mv_out' = Append(mv_out, StatusEvent(StatusCancelled))
            /\ mv_pc' = "done"
       ELSE /\ mv_pc' = "associate"
            /\ UNCHANGED mv_out
    /\ UNCHANGED <<wait_vars, stored_datasets, files, store_vars, find_vars, mv_ds,
                   dest_ae, mv_i, mv_status, assoc_open, mv_assoc, mv_sent,
                   mv_cancelled, mv_cancel_at, mv_cancel_pc, mv_released>>

MoveCheckAfterLast ==
    /\ mv_pc = "check"
    /\ IF mv_i > Len(to_send)
       THEN /\ mv_pc' = "done"
            /\ IF mv_cancelled
               THEN mv_out' = Append(mv_out, StatusEvent(StatusCancelled))
               ELSE UNCHANGED mv_out
       ELSE IF mv_cancelled
       THEN /\ mv_out' = Append(mv_out, StatusEvent(StatusCancelled))
            /\ mv_pc' = "done"
       ELSE /\ mv_pc' = "associate"
            /\ UNCHANGED mv_out
    /\ UNCHANGED <<wait_vars, stored_datasets, files, store_vars, find_vars, mv_ds,
                   dest_ae, to_send, mv_i, mv_status, assoc_open, mv_assoc, mv_sent,
                   mv_cancelled, mv_cancel_at, mv_cancel_pc, mv_released>>


MoveCheck ==
    /\ mv_pc = "check"
    /\ IF mv_i > Len(to_send)
       THEN /\ mv_pc' = "done"
            /\ UNCHANGED mv_out
       ELSE IF mv_cancelled
       THEN /\ mv_out' = Append(mv_out, StatusEvent(StatusCancelled))
            /\ mv_pc' = "done"
       ELSE /\ mv_pc' = "associate"
            /\ UNCHANGED mv_out
    /\ UNCHANGED <<wait_vars, stored_datasets, files, store_vars, find_vars, mv_ds, dest_ae,
                   to_send, mv_i, mv_status, assoc_open, mv_assoc, mv_sent,
                   mv_cancelled, mv_cancel_at,
                   mv_cancel_pc, mv_released>>

\* storage_ae.associate(addr, port, ae_title=dest_ae): established, or not, and
\* then 0xA801 is yielded and the loop goes on with the next inst
MoveAssociate ==
    /\ mv_pc = "associate"
    /\ \E established \in BOOLEAN :
        /\ mv_assoc' = Append(mv_assoc, [index |-> mv_i, established |-> established])
        /\ IF established
           THEN /\ assoc_open' = TRUE
                /\ mv_pc' = "send"
                /\ UNCHANGED <<mv_out, mv_i>>
           ELSE /\ mv_out' = Append(mv_out, StatusEvent(StatusDestination))
                /\ mv_i' = mv_i + 1
                /\ mv_pc' = "check"
                /\ UNCHANGED assoc_open
    /\ UNCHANGED <<wait_vars, stored_datasets, files, store_vars, find_vars, mv_ds, dest_ae,
                   to_send, mv_status, mv_sent, mv_cancelled, mv_cancel_at,
                   mv_cancel_pc, mv_released>>

\* status = assoc.send_c_store(inst): it returns the peer's status, or none,
\* or it raises (no accepted presentation context for inst, association
\* aborted); the exception is not caught, so handle_move ends at line 124,
\* before assoc.release(), and yields nothing more
MoveSend ==
    /\ mv_pc = "send"
    /\ \/ /\ \E reply \in SendReplies : mv_status' = reply
          /\ mv_sent' = Append(mv_sent, [index |-> mv_i, inst |-> to_send[mv_i],
                                         reply |-> mv_status'])
          /\ mv_pc' = "release"
       \/ /\ mv_pc' = "raised"
          /\ UNCHANGED <<mv_status, mv_sent>>
    /\ UNCHANGED <<wait_vars, stored_datasets, files, store_vars, find_vars, mv_ds, dest_ae,
                   to_send, mv_i, assoc_open, mv_out, mv_assoc, mv_cancelled,
                   mv_cancel_at, mv_cancel_pc, mv_released>>

\* assoc.release(), then yield 0xFF00 or 0xB000 by the status
MoveRelease ==
    /\ mv_pc = "release"
    /\ assoc_open' = FALSE
    /\ IF mv_status.present /\ mv_status.Status = StatusSuccess
       THEN mv_out' = Append(mv_out, StatusEvent(StatusPending))
       ELSE mv_out' = Append(mv_out, StatusEvent(StatusFailed))
    /\ mv_i' = mv_i + 1
    /\ mv_pc' = "check"
    /\ mv_released' = mv_released \cup {mv_i}
    /\ UNCHANGED <<wait_vars, stored_datasets, files, store_vars, find_vars, mv_ds, dest_ae,
                   to_send, mv_status, mv_assoc, mv_sent, mv_cancelled, mv_cancel_at,
                   mv_cancel_pc>>

\* the candidates that have passed the cancellation check so far
Admitted ==
    IF mv_pc \in {"associate", "send", "release", "raised"} THEN mv_i ELSE mv_i - 1

\* the peer's C-CANCEL: event.is_cancelled becomes true while the request runs
MoveCancel ==
    /\ mv_pc \notin {"idle", "done", "raised"}
    /\ ~mv_cancelled
    /\ mv_cancelled' = TRUE
    /\ mv_cancel_at' = Admitted
    /\ mv_cancel_pc' = mv_pc
    /\ UNCHANGED <<wait_vars, stored_datasets, files, store_vars, find_vars, mv_pc, mv_ds,
                   dest_ae, to_send, mv_i, mv_status, assoc_open, mv_out, mv_assoc,
                   mv_sent, mv_released>>

handle_move ==
    MoveBegin \/ MoveResolve \/ MoveCount \/ MoveCheck \/ MoveAssociate
        \/ MoveSend \/ MoveRelease

(***************************************************************************)
(* wait_for_files of DICOM_PACS_VIEWER/backend/backend_new.py, and the     *)
(* C-STORE handler of that module, which fills the landing folder.  Time   *)
(* is counted in ticks of one poll_interval.                               *)
(***************************************************************************)
\* what time.sleep(poll_interval) can add to the clock: the interval or more
SleepTicks == 1..MaxSleep

\* what the clock can have advanced by between two statements of the thread:
\* nothing a tick can measure, or more when the thread is held up
ClockLags == 0..MaxLag

\* what the clock can have advanced by between start_time and the first test
\* of the while: any lag; those from the timeout on all end the call at that
\* test, and the lags up to the longest timeout have one of them for each call
StartLags == 0..MaxTimeout

\* the viewer's handle_store: os.makedirs(folder_name, exist_ok=True)
FolderCreate ==
    /\ ~folder_exists
    /\ folder_exists' = TRUE
    /\ UNCHANGED <<stored_datasets, files, store_vars, find_vars, move_vars,
                   folder_files, wf_pc, wf_timeout, consecutive, stable_count,
                   previous_count, current_files, elapsed, wf_polls>>

\* the viewer's handle_store: ds.save_as(filename) of a new <uid>.dcm
FileArrive ==
    /\ folder_exists
    /\ Cardinality(folder_files) < MaxFiles
    /\ folder_files' = folder_files \cup {Cardinality(folder_files) + 1}
    /\ UNCHANGED <<stored_datasets, files, store_vars, find_vars, move_vars,
                   folder_exists, wf_pc, wf_timeout, consecutive, stable_count,
                   previous_count, current_files, elapsed, wf_polls>>

\* the call, up to the while: the counters and start_time are set; elapsed is
\* time.time() - start_time as the test of the while will read it, which is
\* whatever the clock has advanced by since start_time was taken
WaitBegin ==
    /\ wf_pc = "idle"
    /\ \E t \in 0..MaxTimeout : wf_timeout' = t
    /\ \E c \in 0..MaxConsecutive : consecutive' = c
    /\ stable_count' = 0
    /\ previous_count' = -1
    /\ current_files' = {}
    /\ \E d \in StartLags : elapsed' = d
    /\ wf_polls' = <<>>
    /\ wf_pc' = "loop"
    /\ UNCHANGED <<stored_datasets, files, store_vars, find_vars, move_vars,
                   folder_exists, folder_files>>

\* while time.time() - start_time < timeout; else return current_files
WaitLoopNoTimeout ==
    /\ wf_pc = "loop"
    /\ wf_pc' = "poll"
    /\ UNCHANGED <<stored_datasets, files, store_vars, find_vars, move_vars,
                   folder_exists, folder_files, wf_timeout, consecutive, stable_count,
                   previous_count, current_files, elapsed, wf_polls>>

WaitLoop ==
    /\ wf_pc = "loop"
    /\ wf_pc' = IF elapsed < wf_timeout THEN "poll" ELSE "returned"
    /\ UNCHANGED <<stored_datasets, files, store_vars, find_vars, move_vars,
                   folder_exists, folder_files, wf_timeout, consecutive, stable_count,
                   previous_count, current_files, elapsed, wf_polls>>

\* the body of the loop up to the break: list the folder if it exists, count,
\* compare with previous_count, and return when stable_count >= consecutive;
\* the clock goes on meanwhile
WaitPollNoReset ==
    /\ wf_pc = "poll"
    /\ wf_polls' = Append(wf_polls, [at |-> elapsed, exists |-> folder_exists,
                                     files |-> folder_files])
    /\ IF folder_exists
       THEN LET current_count == Cardinality(folder_files)
                stable == IF current_count = previous_count
                          THEN stable_count + 1 ELSE stable_count
            IN /\ current_files' = folder_files
               /\ stable_count' = stable
               /\ previous_count' = current_count
               /\ wf_pc' = IF stable >= consecutive THEN "returned" ELSE "sleep"
       ELSE /\ wf_pc' = "sleep"
            /\ UNCHANGED <<current_files, stable_count, previous_count>>
    /\ \E d \in ClockLags : elapsed' = elapsed + d
    /\ UNCHANGED <<stored_datasets, files, store_vars, find_vars, move_vars,
                   folder_exists, folder_files, wf_timeout, consecutive>>

WaitPollAbsentCounts ==
    /\ wf_pc = "poll"
    /\ wf_polls' = Append(wf_polls, [at |-> elapsed, exists |-> folder_exists,
                                     files |-> folder_files])
    /\ LET current_count == IF folder_exists THEN Cardinality(folder_files) ELSE 0
           stable == IF current_count = previous_count
                     THEN stable_count + 1 ELSE 0
       IN /\ current_files' = IF folder_exists THEN folder_files ELSE {}
          /\ stable_count' = stable
          /\ previous_count' = current_count
          /\ wf_pc' = IF stable >= consecutive THEN "returned" ELSE "sleep"
    /\ \E d \in ClockLags : elapsed' = elapsed + d
    /\ UNCHANGED <<stored_datasets, files, store_vars, find_vars, move_vars,
                   folder_exists, folder_files, wf_timeout, consecutive>>


WaitPoll ==
    /\ wf_pc = "poll"
    /\ wf_polls' = Append(wf_polls, [at |-> elapsed, exists |-> folder_exists,
                                     files |-> folder_files])
    /\ IF folder_exists
       THEN LET current_count == Cardinality(folder_files)
                stable == IF current_count = previous_count
                          THEN stable_count + 1 ELSE 0
            IN /\ current_files' = folder_files
               /\ stable_count' = stable
               /\ previous_count' = current_count
               /\ wf_pc' = IF stable >= consecutive THEN "returned" ELSE "sleep"
       ELSE /\ wf_pc' = "sleep"
            /\ UNCHANGED <<current_files, stable_count, previous_count>>
    /\ \E d \in ClockLags : elapsed' = elapsed + d
    /\ UNCHANGED <<stored_datasets, files, store_vars, find_vars, move_vars,
                   folder_exists, folder_files, wf_timeout, consecutive>>

\* time.sleep(poll_interval)
WaitSleep ==
    /\ wf_pc = "sleep"
    /\ \E d \in SleepTicks : elapsed' = elapsed + d
    /\ wf_pc' = "loop"
    /\ UNCHANGED <<stored_datasets, files, store_vars, find_vars, move_vars,
                   folder_exists, folder_files, wf_timeout, consecutive, stable_count,
                   previous_count, current_files, wf_polls>>

wait_for_files == WaitBegin \/ WaitLoop \/ WaitPoll \/ WaitSleep

(***************************************************************************)
(* Specifications.                                                         *)
(***************************************************************************)
\* every content the list can have: handle_store appends whatever it is given
Repositories == SeqsUpTo(Datasets, MaxStored)

\* the three handlers and the peers' cancel requests, from the empty list
Next ==
    \/ StoreBegin \/ StoreSave \/ StoreAppend
    \/ FindBegin \/ FindMatch \/ FindNext \/ FindCancel
    \/ MoveBegin \/ MoveResolve \/ MoveCount \/ MoveCheck \/ MoveAssociate
    \/ MoveSend \/ MoveRelease \/ MoveCancel

Spec == Init /\ [][Next]_vars

\* C-STORE requests alone, from the empty list
NextStore == StoreBegin \/ StoreSave \/ StoreAppend

SpecStore == Init /\ [][NextStore]_vars

\* a repository that earlier stores have filled: every entry of the list has
\* its file, and a store whose save_as raised may have left a file of its own
InitFilled ==
    /\ stored_datasets \in Repositories
    /\ files \in SUBSET UIDs
    /\ \A k \in 1..Len(stored_datasets) : stored_datasets[k].SOPInstanceUID \in files
    /\ StoreIdle
    /\ FindIdle
    /\ MoveIdle
    /\ WaitIdle

\* one C-FIND request over a filled repository
NextFind == FindBegin \/ FindMatch \/ FindNext \/ FindCancel

SpecFind == InitFilled /\ [][NextFind]_vars

\* one C-MOVE request over a filled repository
NextMove ==
    \/ MoveBegin \/ MoveResolve \/ MoveCount \/ MoveCheck \/ MoveAssociate
    \/ MoveSend \/ MoveRelease \/ MoveCancel

SpecMove == InitFilled /\ [][NextMove]_vars

\* the requests of the concurrent runs: instances of patient "a", whose
\* PatientID may have a trailing blank, an instance of patient "b", and a
\* find or a move for patient "a"
ConcurrentDatasets ==
    {[SOPInstanceUID |-> "1.1", hasPatientID |-> TRUE, PatientID |-> <<"a">>],
     [SOPInstanceUID |-> "1.2", hasPatientID |-> TRUE, PatientID |-> <<"a", " ">>],
     [SOPInstanceUID |-> "1.2", hasPatientID |-> TRUE, PatientID |-> <<"b">>]}

ConcurrentIdentifiers ==
    {[QueryRetrieveLevel |-> "PATIENT", hasPatientID |-> TRUE, PatientID |-> <<"a">>]}

\* C-STORE requests handled while one C-FIND and one C-MOVE request are, in
\* any interleaving of the handlers' steps, from the empty list
NextConcurrent ==
    \/ StoreBeginOf(ConcurrentDatasets) \/ StoreSave \/ StoreAppend
    \/ FindBeginOf(ConcurrentIdentifiers) \/ FindMatch \/ FindNext \/ FindCancel
    \/ MoveBeginOf(ConcurrentIdentifiers, {"TESTSCU"}) \/ MoveResolve \/ MoveCount
    \/ MoveCheck \/ MoveAssociate \/ MoveSend \/ MoveRelease \/ MoveCancel

SpecConcurrent == Init /\ [][NextConcurrent]_vars

\* one call of wait_for_files while files arrive in the landing folder; the
\* thread that runs wait_for_files is not stopped
NextWait ==
    \/ FolderCreate \/ FileArrive
    \/ WaitBegin \/ WaitLoop \/ WaitPoll \/ WaitSleep

SpecWait ==
    /\ Init
    /\ [][NextWait]_vars
    /\ WF_vars(WaitLoop \/ WaitPoll \/ WaitSleep)

(***************************************************************************)
(* Properties.                                                             *)
(***************************************************************************)
KnownDestination == dest_ae \in DOMAIN KNOWN_AE_DESTINATIONS

\* the status pairs that report the outcome of one candidate
IsItemOutcome(e) ==
    /\ e.tag = "status"
    /\ e.status \in {StatusPending, StatusFailed, StatusDestination}

IsCancelledEvent(e) == e.tag = "status" /\ e.status = StatusCancelled

\* the stored instances whose trimmed PatientID is that of the identifier
SameTrimmedPatient(inst, ds) ==
    inst.hasPatientID /\ strip(inst.PatientID) = strip(ds.PatientID)

MatchingPositions(ds) ==
    {k \in 1..Len(stored_datasets) : SameTrimmedPatient(stored_datasets[k], ds)}

\* C1: once an association to the destination is refused for a candidate, the
\* move makes no further associate() call and yields no further item outcome.
C1_UnavailableEndsMove ==
    \A k \in 1..Len(mv_assoc) :
        ~mv_assoc[k].established =>
            /\ Len(mv_assoc) = k
            /\ \A e \in (2 + mv_assoc[k].index + 1)..Len(mv_out) :
                   ~IsItemOutcome(mv_out[e])

\* C2: a PATIENT-level find that ran to its end without a cancel, for a
\* non-empty PatientID that several stored instances have after trimming,
\* yields exactly one match.
C2_OneMatchPerTrimmedPatientID ==
    ( /\ fd_pc = "done"
      /\ ~fd_cancelled
      /\ fd_ds.QueryRetrieveLevel = "PATIENT"
      /\ fd_ds.hasPatientID
      /\ strip(fd_ds.PatientID) # <<>>
      /\ Cardinality(MatchingPositions(fd_ds)) >= 2 )
    => Len(fd_out) = 1

\* C3: no two entries of stored_datasets have the same SOPInstanceUID.
C3_UniqueSOPInstanceUID ==
    \A j, k \in 1..Len(stored_datasets) :
        j # k => stored_datasets[j].SOPInstanceUID # stored_datasets[k].SOPInstanceUID

\* C4: a cancel that comes when K of the N candidates have been admitted,
\* K < N, lets no further candidate be attempted, and the move ends with
\* exactly K item outcomes followed by one Cancelled status.
C4_CancelAfterK ==
    (mv_cancelled /\ KnownDestination) =>
        /\ Len(mv_assoc) <= mv_cancel_at
        /\ mv_cancel_pc \in {"resolve", "count", "check"} =>
               mv_pc \in {"resolve", "count", "check", "done"}
        /\ (mv_pc = "done" /\ mv_cancel_at < Len(to_send)) =>
              /\ Len(mv_out) = 2 + mv_cancel_at + 1
              /\ \A j \in 1..mv_cancel_at : IsItemOutcome(mv_out[2 + j])
              /\ mv_out[Len(mv_out)] = StatusEvent(StatusCancelled)
              /\ Len(mv_assoc) = mv_cancel_at

C4_Witness ==
    /\ mv_pc = "done"
    /\ mv_cancelled
    /\ KnownDestination
    /\ Len(to_send) = 2
    /\ mv_cancel_at = 1
    /\ mv_i = 2
    /\ Len(mv_out) = 4

\* C5: a move to a destination that is not in the registry yields the single
\* status 0xA801 and ends, without any associate() or send_c_store() call.
C5_UnknownDestination ==
    (mv_pc # "idle" /\ ~KnownDestination) =>
        /\ mv_assoc = <<>>
        /\ mv_sent = <<>>
        /\ \/ mv_pc = "resolve" /\ mv_out = <<>>
           \/ mv_pc = "done" /\ mv_out = <<StatusEvent(StatusDestination)>>

C5_Witness ==
    /\ mv_pc = "done"
    /\ ~KnownDestination
    /\ mv_out = <<StatusEvent(StatusDestination)>>
    /\ MatchingPositions(mv_ds) # {}
    /\ mv_ds.QueryRetrieveLevel = "PATIENT"
    /\ mv_ds.hasPatientID

\* every associate() call was established and every send_c_store() got 0x0000
AllAccepted ==
    /\ \A k \in 1..Len(mv_assoc) : mv_assoc[k].established
    /\ \A k \in 1..Len(mv_sent) :
           mv_sent[k].reply.present /\ mv_sent[k].reply.Status = StatusSuccess

\* the instances of a PATIENT-level identifier that carries a PatientID, in
\* the order of the list
ExpectedCandidates ==
    LET Test(inst) == SameTrimmedPatient(inst, mv_ds)
    IN IF mv_ds.QueryRetrieveLevel = "PATIENT" /\ mv_ds.hasPatientID
       THEN SelectSeq(stored_datasets, Test)
       ELSE <<>>

\* C6: a move to a known destination that ended without a cancel, with every
\* association established and every transfer accepted, has yielded the
\* destination, the count N and N times 0xFF00, and has sent the N matching
\* instances in the order of stored_datasets.
C6_AllTransfersSucceed ==
    (mv_pc = "done" /\ KnownDestination /\ ~mv_cancelled /\ AllAccepted) =>
        LET N == Len(ExpectedCandidates)
        IN /\ Len(mv_out) = 2 + N
           /\ mv_out[1] = DestinationEvent(dest_ae)
           /\ mv_out[2] = CountEvent(N)
           /\ \A j \in 1..N : mv_out[2 + j] = StatusEvent(StatusPending)
           /\ Len(mv_sent) = N
           /\ \A j \in 1..N : mv_sent[j].inst = ExpectedCandidates[j]

C6_Witness ==
    /\ mv_pc = "done"
    /\ KnownDestination
    /\ ~mv_cancelled
    /\ AllAccepted
    /\ Len(mv_sent) = 2
    /\ mv_sent[1].inst # mv_sent[2].inst

\* the move has ended, by the generator's return or by an exception
MoveEnded == mv_pc \in {"done", "raised"}

\* C7: a candidate whose transfer the remote did not accept gets 0xB000, and
\* that does not end the move: when the move has ended without yielding
\* Cancelled, every candidate after it has been attempted and has its own
\* outcome; 0xB000 goes exactly to the candidates sent and not accepted.
C7_FailedTransferContinues ==
    /\ \A k \in 1..Len(mv_sent) :
           (2 + mv_sent[k].index <= Len(mv_out)) =>
               ( mv_out[2 + mv_sent[k].index] = StatusEvent(StatusFailed)
                 <=> ~(mv_sent[k].reply.present
                        /\ mv_sent[k].reply.Status = StatusSuccess) )
    /\ \A k \in 1..Len(mv_sent) :
           ( /\ MoveEnded
             /\ KnownDestination
             /\ ~(mv_sent[k].reply.present /\ mv_sent[k].reply.Status = StatusSuccess)
             /\ \A e \in 1..Len(mv_out) : ~IsCancelledEvent(mv_out[e]) )
           => /\ Len(mv_assoc) = Len(to_send)
              /\ Len(mv_out) = 2 + Len(to_send)
              /\ \A j \in (mv_sent[k].index)..Len(to_send) :
                    /\ mv_assoc[j].index = j
                    /\ IsItemOutcome(mv_out[2 + j])

\* C8: when save_as fails, handle_store ends by raising, not by returning
\* 0x0000, and stored_datasets is what it was when the call began.
C8_StoreFailureSignalled ==
    st_saved = "failed" =>
        /\ st_result.kind = "raise"
        /\ st_pc = "idle"
        /\ stored_datasets = st_before

C8_Witness ==
    /\ st_saved = "failed"
    /\ st_result.kind = "raise"
    /\ Len(stored_datasets) = 1
    /\ st_ds.SOPInstanceUID = stored_datasets[1].SOPInstanceUID

\* C9: a request whose identifier has no PatientID yields nothing from
\* handle_find, and neither the destination nor the count from handle_move.
C9_MissingKeyRejected ==
    /\ (mv_pc # "idle" /\ ~mv_ds.hasPatientID) =>
           \A e \in 1..Len(mv_out) : mv_out[e].tag \notin {"destination", "count"}
    /\ (fd_pc # "idle" /\ ~fd_ds.hasPatientID) => fd_out = <<>>

\* C10: handle_find yields 0xFE00 at most once, without an identifier and as
\* its last item; and a cancel that comes while matches are left to yield
\* makes the find end with the matches yielded before it, then 0xFE00.
C10_FindCancelled ==
    /\ \A k \in 1..Len(fd_out) :
           fd_out[k].status = StatusCancelled =>
               /\ k = Len(fd_out)
               /\ ~fd_out[k].hasIdentifier
               /\ fd_pc = "done"
               /\ fd_cancelled
    /\ (fd_pc = "done" /\ fd_cancelled /\ fd_cancel_at <= Len(matches)) =>
           /\ Len(fd_out) = fd_cancel_at
           /\ fd_out[fd_cancel_at].status = StatusCancelled
           /\ \A k \in 1..(fd_cancel_at - 1) :
                  /\ fd_out[k].status = StatusPending
                  /\ fd_out[k].hasIdentifier
                  /\ fd_out[k].identifier = matches[k]

C10_Witness ==
    /\ fd_pc = "done"
    /\ fd_cancelled
    /\ Len(matches) = 2
    /\ fd_cancel_at = 2
    /\ Len(fd_out) = 2
    /\ fd_out[1].status = StatusPending
    /\ fd_out[2].status = StatusCancelled

\* C11: a move to a known destination for which no stored instance matches
\* yields the destination and the count 0 and ends, with no item outcome, no
\* Cancelled status and no associate() call, whether or not a cancel came.
C11_NoCandidates ==
    (KnownDestination /\ ExpectedCandidates = <<>>) =>
        /\ mv_assoc = <<>>
        /\ mv_sent = <<>>
        /\ mv_pc \in {"resolve", "count", "check", "done"}
        /\ mv_pc = "check" => mv_out = <<DestinationEvent(dest_ae), CountEvent(0)>>
        /\ mv_pc = "done" => mv_out = <<DestinationEvent(dest_ae), CountEvent(0)>>

C11_Witness ==
    /\ mv_pc = "done"
    /\ KnownDestination
    /\ ExpectedCandidates = <<>>
    /\ mv_cancelled
    /\ mv_ds.QueryRetrieveLevel = "PATIENT"
    /\ mv_ds.hasPatientID
    /\ Len(stored_datasets) = 2
    /\ mv_out = <<DestinationEvent(dest_ae), CountEvent(0)>>

\* C12: a find for a level other than PATIENT, or for a PatientID that no
\* stored instance has after trimming, yields nothing at all, not even a
\* Cancelled status when a cancel came, and ends.
C12_EmptyFind ==
    ( /\ fd_pc \in {"yield", "done"}
      /\ \/ fd_ds.QueryRetrieveLevel # "PATIENT"
         \/ MatchingPositions(fd_ds) = {} )
    => /\ matches = <<>>
       /\ fd_out = <<>>

C12_Witness ==
    /\ fd_pc = "done"
    /\ fd_ds.QueryRetrieveLevel # "PATIENT"
    /\ fd_ds.hasPatientID
    /\ fd_ds.PatientID # <<>>
    /\ MatchingPositions(fd_ds) # {}
    /\ fd_cancelled
    /\ fd_out = <<>>

\* the number of .dcm files the k-th turn of the loop found
PollCount(k) == Cardinality(wf_polls[k].files)

\* at the k-th turn the folder's file count was that of the turn before, for
\* the last `consecutive` turns
StableAt(k) ==
    /\ wf_polls[k].exists
    /\ k - consecutive >= 1
    /\ \A j \in (k - consecutive + 1)..k :
           wf_polls[j - 1].exists /\ PollCount(j) = PollCount(j - 1)

\* C13: wait_for_files returns only at a turn at which the file count has
\* been unchanged for `consecutive` turns in a row, or once the timeout has
\* elapsed; and it returns at the first such turn, never going on after it.
C13_CompletionRule ==
    /\ wf_pc = "returned" =>
           \/ Len(wf_polls) >= 1 /\ StableAt(Len(wf_polls))
           \/ elapsed >= wf_timeout
    /\ \A k \in 1..Len(wf_polls) :
           StableAt(k) => k = Len(wf_polls) /\ wf_pc = "returned"

C13_Witness ==
    /\ wf_pc = "returned"
    /\ consecutive = 2
    /\ elapsed < wf_timeout
    /\ Len(wf_polls) = 5
    /\ StableAt(5)
    /\ PollCount(1) = 1
    /\ PollCount(2) = 1
    /\ PollCount(3) = 2
    /\ wf_polls[5].at = 4
    /\ current_files = {1, 2}

\* the files of the last turn at which the folder existed, if any
LastObserved ==
    LET seen == {k \in 1..Len(wf_polls) : wf_polls[k].exists}
    IN IF seen = {} THEN {}
       ELSE wf_polls[CHOOSE k \in seen : \A j \in seen : j <= k].files

C14_Bounded ==
    /\ \A k \in 1..Len(wf_polls) : wf_polls[k].at < wf_timeout
    /\ \A k \in 2..Len(wf_polls) : wf_polls[k].at > wf_polls[k - 1].at
    /\ wf_pc = "poll" => elapsed < wf_timeout
    /\ Len(wf_polls) <= wf_timeout
    /\ wf_pc = "returned" => current_files = LastObserved

\* C14: wait_for_files starts no turn of its loop once the test of the while
\* has read a clock at or past the timeout; the turns are at least one
\* poll_interval apart, so it makes at most timeout / poll_interval of them,
\* whatever arrives in the folder and however long a turn takes; it returns
\* the files its last listing found; and every call returns.
C14_Terminates ==
    /\ []C14_Bounded
    /\ (wf_pc # "idle") ~> (wf_pc = "returned")

C14_Witness ==
    /\ wf_pc = "returned"
    /\ elapsed >= wf_timeout
    /\ Len(wf_polls) = 4
    /\ \A k \in 1..4 : wf_polls[k].exists /\ PollCount(k) = k
    /\ current_files = {1, 2, 3, 4}

\* the state of the move, read off the handler's position and last yield
MovePhase ==
    IF mv_pc = "idle" THEN "IDLE"
    ELSE IF mv_pc = "resolve" THEN "RESOLVE"
    ELSE IF mv_pc = "count" THEN "COUNT"
    ELSE IF mv_pc \in {"check", "associate", "send", "release"} THEN "STREAM"
    ELSE IF mv_pc = "raised" THEN "FAILED"
    ELSE IF mv_out # <<>> /\ IsCancelledEvent(mv_out[Len(mv_out)]) THEN "CANCELLED"
    ELSE IF mv_out # <<>> /\ mv_out[Len(mv_out)] = StatusEvent(StatusDestination)
    THEN "FAILED"
    ELSE "DONE"

PhaseSuccessors(phase) ==
    IF phase = "IDLE" THEN {"IDLE", "RESOLVE"}
    ELSE IF phase = "RESOLVE" THEN {"RESOLVE", "COUNT", "FAILED"}
    ELSE IF phase = "COUNT" THEN {"COUNT", "STREAM"}
    ELSE IF phase = "STREAM" THEN {"STREAM", "DONE", "FAILED", "CANCELLED"}
    ELSE {phase}

C15_EventOrder ==
    /\ MovePhase = "RESOLVE" => mv_out = <<>>
    /\ MovePhase = "COUNT" => mv_out = <<DestinationEvent(dest_ae)>>
    /\ (MovePhase \in {"STREAM", "DONE", "CANCELLED"}
            \/ (MovePhase = "FAILED" /\ KnownDestination)) =>
           /\ Len(mv_out) >= 2
           /\ mv_out[1] = DestinationEvent(dest_ae)
           /\ mv_out[2] = CountEvent(Len(to_send))
           /\ \A e \in 3..Len(mv_out) : mv_out[e].tag = "status"
    /\ ~KnownDestination => \A e \in 1..Len(mv_out) : mv_out[e].tag = "status"

\* C15: handle_move goes RESOLVE, COUNT, STREAM, DONE, leaving that path only
\* from RESOLVE (to FAILED) or from STREAM (to FAILED or CANCELLED); for a
\* known destination it yields the destination first, the count second, once
\* each, and status pairs only after them.
C15_MoveStateMachine ==
    /\ []C15_EventOrder
    /\ [][MovePhase' \in PhaseSuccessors(MovePhase)]_vars

C15_Witness ==
    /\ MovePhase = "CANCELLED"
    /\ KnownDestination
    /\ Len(to_send) = 2
    /\ Len(mv_out) = 4
    /\ mv_out[3] = StatusEvent(StatusPending)

\* the candidates whose association is established and not yet released
OpenSessions ==
    {mv_assoc[k].index : k \in {j \in 1..Len(mv_assoc) : mv_assoc[j].established}}
        \ mv_released

\* C17: handle_move calls associate() once per attempted candidate, in the
\* order of to_send; an established association carries at most one
\* send_c_store and is released before the next associate(); so at most one
\* is open at any time, and none when the move has ended.
C17_OneSessionAtATime ==
    /\ Cardinality(OpenSessions) <= 1
    /\ \A k \in 1..Len(mv_assoc) : mv_assoc[k].index = k
    /\ mv_pc \in {"check", "associate"} => OpenSessions = {}
    /\ MoveEnded => OpenSessions = {}
    /\ mv_pc \in {"send", "release"} => OpenSessions = {mv_i}
    /\ \A j, k \in 1..Len(mv_sent) : j # k => mv_sent[j].index # mv_sent[k].index
    /\ \A k \in 1..Len(mv_sent) :
           /\ mv_sent[k].index <= Len(mv_assoc)
           /\ mv_assoc[mv_sent[k].index].established
    /\ mv_released \subseteq {mv_sent[k].index : k \in 1..Len(mv_sent)}

\* C18: a cancel that comes while the transfer of candidate i is under way
\* (its association established, not yet released) does not stop it: the
\* send and the release are done, the candidate gets 0xFF00 or 0xB000 by the
\* reply, and Cancelled is yielded only afterwards, in place of candidate
\* i + 1 if there is one.
C18_CancelNotPreemptive ==
    (mv_cancelled /\ mv_cancel_pc \in {"send", "release"}) =>
        LET i == mv_cancel_at
        IN /\ mv_pc \in {"send", "release", "check", "done"}
           /\ mv_pc \in {"check", "done"} =>
                 /\ i \in mv_released
                 /\ Len(mv_sent) = Cardinality({k \in 1..i : mv_assoc[k].established})
                 /\ mv_sent[Len(mv_sent)].index = i
                 /\ Len(mv_out) >= 2 + i
                 /\ mv_out[2 + i] =
                        IF mv_sent[Len(mv_sent)].reply.present
                           /\ mv_sent[Len(mv_sent)].reply.Status = StatusSuccess
                        THEN StatusEvent(StatusPending)
                        ELSE StatusEvent(StatusFailed)
           /\ \A e \in 1..(2 + i) : e <= Len(mv_out) => ~IsCancelledEvent(mv_out[e])
           /\ (mv_pc = "done" /\ i < Len(to_send)) =>
                 /\ Len(mv_out) = 3 + i
                 /\ IsCancelledEvent(mv_out[3 + i])

\* C20: whenever handle_find yields nothing for a PATIENT-level identifier,
\* handle_move for the same identifier and a known destination announces the
\* count 0 and calls associate() for no candidate.
C20_MoveMatchesLikeFind ==
    ( /\ KnownDestination
      /\ mv_pc \in {"check", "associate", "send", "release", "done"}
      /\ mv_ds.QueryRetrieveLevel = "PATIENT"
      /\ FindMatches(mv_ds, stored_datasets) = <<>> )
    => /\ mv_out[2] = CountEvent(0)
       /\ mv_assoc = <<>>

StreamPositions == {"check", "associate", "send", "release"}

\* the item outcomes yielded so far
ItemOutcomeCount ==
    Cardinality({e \in 1..Len(mv_out) : IsItemOutcome(mv_out[e])})

C16_CandidatesWithinCount ==
    (KnownDestination /\ (mv_pc \in StreamPositions \/ MoveEnded)) =>
        /\ mv_out[2] = CountEvent(Len(to_send))
        /\ ItemOutcomeCount <= mv_out[2].n
        /\ \A k \in 1..Len(mv_sent) : mv_sent[k].inst = to_send[mv_sent[k].index]
        /\ Len(mv_assoc) <= mv_out[2].n
        /\ ( /\ mv_pc = "done"
             /\ \A e \in 1..Len(mv_out) : ~IsCancelledEvent(mv_out[e]) )
           => ItemOutcomeCount = mv_out[2].n

\* C16: to_send does not change once the count has been yielded, whatever
\* handle_store appends to stored_datasets meanwhile; the instances sent are
\* those of to_send; the item outcomes never exceed the count announced and
\* equal it when the move ends without Cancelled.
C16_CandidateSetFixed ==
    /\ []C16_CandidatesWithinCount
    /\ [][(mv_pc \in StreamPositions) => (to_send' = to_send)]_vars

C16_Witness ==
    /\ mv_pc = "release"
    /\ KnownDestination
    /\ Len(to_send) = 1
    /\ mv_i = 1
    /\ Len(ExpectedCandidates) = 2
    /\ st_pc = "idle"

\* the elements of a list
Elements(list) == {list[k] : k \in 1..Len(list)}

C19_ReadersSeeStored ==
    /\ \A inst \in Elements(stored_datasets) : inst.SOPInstanceUID \in files
    /\ Elements(to_send) \subseteq Elements(stored_datasets)
    /\ Elements(matches) \subseteq {MatchResult(inst) : inst \in Elements(stored_datasets)}
    /\ \A k \in 1..Len(mv_sent) : mv_sent[k].inst \in Elements(stored_datasets)

\* C19: every instance in stored_datasets has its file written, handle_find
\* and handle_move only ever hold instances of stored_datasets, and
\* stored_datasets changes only by handle_store appending, at its end, the
\* dataset whose file it has just written.
C19_AppendOnlyAfterPersist ==
    /\ []C19_ReadersSeeStored
    /\ [][stored_datasets' # stored_datasets =>
             /\ stored_datasets' = Append(stored_datasets, st_ds)
             /\ st_saved = "written"
             /\ st_ds.SOPInstanceUID \in files]_vars

C19_Witness ==
    /\ st_pc = "append"
    /\ st_ds \notin Elements(stored_datasets)
    /\ Len(stored_datasets) = 1
    /\ fd_pc = "yield"
    /\ Len(matches) = 1
    /\ mv_pc = "send"
    /\ Len(to_send) = 1


\* the C-CANCEL came when the last inst of to_send had had its outcome yielded
CancelledAfterLast ==
    /\ KnownDestination
    /\ mv_cancelled
    /\ mv_cancel_pc = "check"
    /\ Len(to_send) > 0
    /\ mv_cancel_at = Len(to_send)

C21_LateCancelHarmless ==
    CancelledAfterLast =>
        /\ mv_pc \in {"check", "done"}
        /\ mv_i = Len(to_send) + 1
        /\ mv_out[2] = CountEvent(Len(to_send))
        /\ ItemOutcomeCount = Len(to_send)
        /\ Len(mv_out) = 2 + Len(to_send)
        /\ \A e \in 1..Len(mv_out) : ~IsCancelledEvent(mv_out[e])

\* C21: a C-CANCEL that arrives after the last inst of to_send has had its
\* outcome yielded changes nothing: all Len(to_send) item outcomes are out,
\* no Cancelled status is ever yielded, and the one step the handler has left
\* ends the move without yielding anything.
C21_CancelAfterLastIgnored ==
    /\ []C21_LateCancelHarmless
    /\ [][(CancelledAfterLast /\ mv_pc = "check" /\ mv_pc' # mv_pc) =>
             (mv_pc' = "done" /\ mv_out' = mv_out)]_vars

C21_Witness ==
    /\ mv_pc = "done"
    /\ CancelledAfterLast
    /\ Len(to_send) = 2
    /\ mv_out[3] = StatusEvent(StatusPending)
    /\ mv_out[4] = StatusEvent(StatusFailed)


\* the turns of the loop at which the folder existed
PollsWithFolder == {k \in 1..Len(wf_polls) : wf_polls[k].exists}

C22_AbsentNotCounted ==
    wf_pc # "idle" =>
        /\ PollsWithFolder = {} =>
               /\ stable_count = 0
               /\ previous_count = -1
               /\ current_files = {}
               /\ wf_pc = "returned" => elapsed >= wf_timeout
        /\ PollsWithFolder # {} =>
               /\ stable_count <= Cardinality(PollsWithFolder) - 1
               /\ previous_count >= 0

\* C22: a turn of the loop at which the folder does not exist leaves
\* stable_count, previous_count and current_files alone and never breaks out
\* of the loop, so a call that never sees the folder returns [] at the timeout
\* and not before, and stable_count counts only turns after the first one at
\* which the folder existed.
C22_AbsentFolderNeverStable ==
    /\ []C22_AbsentNotCounted
    /\ [][(wf_pc = "poll" /\ ~folder_exists /\ wf_pc' # wf_pc) =>
             /\ wf_pc' = "sleep"
             /\ UNCHANGED <<stable_count, previous_count, current_files>>]_vars

C22_Witness ==
    /\ wf_pc = "returned"
    /\ ~folder_exists
    /\ consecutive = 1
    /\ Len(wf_polls) = 3
    /\ PollsWithFolder = {}
    /\ elapsed >= wf_timeout
    /\ current_files = {}

=============================================================================
